---- MODULE Spec2Model ----
(***************************************************************************)
(* OutfitAI (project_v1.py): the sidebar's model selector, the image       *)
(* classifier GeminiStylist.analyze_image with its 429 retry loop, the     *)
(* advice generator GeminiStylist.generate_advice and the main pipeline    *)
(* that chains them.                                                       *)
(*                                                                         *)
(* Text is a sequence of symbols.  A symbol is one character, or a run of  *)
(* characters that the code never looks inside in the inputs drawn here    *)
(* ("null", "json", a key name, a run of spaces); "tick" is the backtick   *)
(* and "quote" the double quote.  Width gives the number                   *)
(* of characters a symbol stands for, so that character offsets reported   *)
(* by the JSON decoder are the real ones.                                  *)
(***************************************************************************)
EXTENDS Integers, Sequences, FiniteSets, TLC

VARIABLES
    pc,                  \* position of the script run
    api_key,             \* line 19: "" when the field is empty
    listed,              \* what genai.list_models() yielded in this run
    listRaised,          \* whether lines 25-32 raised in this run
    all_models,          \* line 27
    available_models,    \* lines 22, 32, 38
    selected_model_name, \* line 40
    generate_btn,        \* line 167
    uploaded_file,       \* line 155
    attempt,             \* loop variable of line 85
    resp,                \* line 87: what the model call of the current attempt produced
    err,                 \* the exception bound to e at line 92
    outcomes,            \* per attempt: how the try block of lines 86-90 ended
    trace,               \* calls, sleeps and returns in the order they happened
    diag,                \* st.error / st.info messages emitted, in order
    item_data,           \* line 178
    advice,              \* line 188
    raised               \* the exception that left the script uncaught, if any

vars == <<pc, api_key, listed, listRaised, all_models, available_models,
          selected_model_name, generate_btn, uploaded_file, attempt, resp, err,
          outcomes, trace, diag, item_data, advice, raised>>

(***************************************************************************)
(* Bounds of the model.                                                    *)
(***************************************************************************)
\* total number of value characters in one classifier record
MaxItemLen == 3
\* symbols in a response that is not a serialized record
MaxMiscLen == 3
\* models yielded by one enumeration
MaxModels == 2

(***************************************************************************)
(* Program constants.                                                      *)
(***************************************************************************)
\* line 95: the marker "429" looked for in the error message
Marker == <<"4", "2", "9">>

(***************************************************************************)
(* Sequences.                                                              *)
(***************************************************************************)
SeqsUpTo(S, n) == UNION {[1..k -> S] : k \in 0..n}

Drop(s, n) == SubSeq(s, n + 1, Len(s))

StartsWith(s, p) == Len(p) <= Len(s) /\ SubSeq(s, 1, Len(p)) = p

\* old in s, for str operands (lines 32 and 95 use the operator on text)
Contains(s, old) == \E i \in 0..(Len(s) - Len(old)) : StartsWith(Drop(s, i), old)

(***************************************************************************)
(* Text: str.strip and str.replace as line 89 uses them.                   *)
(***************************************************************************)
\* "wide" is a run of 428 spaces
Whitespace == {" ", "\n", "wide"}

Width(c) ==
    CASE c = "wide" -> 428
      [] c = "null" -> 4
      [] c = "json" -> 4
      [] c = "category" -> 8
      [] c = "color" -> 5
      [] c = "style" -> 5
      [] c = "description" -> 11
      [] OTHER -> 1

RECURSIVE LStrip(_)
LStrip(s) == IF s # <<>> /\ s[1] \in Whitespace THEN LStrip(Tail(s)) ELSE s

RECURSIVE RStrip(_)
RStrip(s) ==
    IF s # <<>> /\ s[Len(s)] \in Whitespace THEN RStrip(SubSeq(s, 1, Len(s) - 1)) ELSE s

Strip(s) == RStrip(LStrip(s))

\* s.replace(old, ""): every non-overlapping occurrence, left to right
RECURSIVE Remove(_, _)
Remove(s, old) ==
    IF s = <<>> THEN <<>>
    ELSE IF StartsWith(s, old) THEN Remove(Drop(s, Len(old)), old)
    ELSE <<s[1]>> \o Remove(Tail(s), old)

FenceJson == <<"tick", "tick", "tick", "json">>
Fence == <<"tick", "tick", "tick">>

CleanText(text) == Remove(Remove(Strip(text), FenceJson), Fence)

(***************************************************************************)
(* JSON values as json.loads builds them: None, str, dict.                 *)
(***************************************************************************)
EmptyMap == [k \in {} |-> 0]

JNull == [kind |-> "null", s |-> <<>>, m |-> EmptyMap]
JStr(s) == [kind |-> "str", s |-> s, m |-> EmptyMap]
JObj(m) == [kind |-> "obj", s |-> <<>>, m |-> m]

\* d[k] = v on a dict: a key met twice keeps the last value
Put(m, k, v) == [x \in (DOMAIN m) \cup {k} |-> IF x = k THEN v ELSE m[x]]

(***************************************************************************)
(* json.loads (line 90), CPython's json.decoder / json.scanner, on the     *)
(* symbols this model draws: whitespace, strings without escapes, null and *)
(* objects.  Indices are 1-based symbol indices; a failed scan carries the *)
(* index of the symbol the decoder reports.  (After a comma, CPython 3.13  *)
(* reports a closing brace at the comma instead; no text drawn here has a  *)
(* comma before a brace.)                                                  *)
(***************************************************************************)
Ok(v, e) == [ok |-> TRUE, end |-> e, val |-> v]
Fail(e) == [ok |-> FALSE, end |-> e, val |-> JNull]

At(s, i) == IF i >= 1 /\ i <= Len(s) THEN s[i] ELSE "eof"

RECURSIVE SkipWs(_, _)
SkipWs(s, i) == IF At(s, i) \in Whitespace THEN SkipWs(s, i + 1) ELSE i

\* smallest index >= i holding a string terminator, Len(s) + 1 when none
RECURSIVE Terminator(_, _)
Terminator(s, i) ==
    IF i > Len(s) \/ s[i] \in {"quote", "\n"} THEN i ELSE Terminator(s, i + 1)

\* scanstring, called with the index after the opening quote
ScanString(s, i) ==
    LET j == Terminator(s, i) IN
    IF j > Len(s) THEN Fail(i - 1)            \* Unterminated string starting at
    ELSE IF s[j] = "\n" THEN Fail(j)        \* Invalid control character at
    ELSE Ok(JStr(SubSeq(s, i, j - 1)), j + 1)

RECURSIVE ScanOnce(_, _)
RECURSIVE Members(_, _, _)

\* JSONObject, called with the index after the opening brace
ParseObject(s, i) ==
    LET j == SkipWs(s, i) IN
    IF At(s, j) = "}" THEN Ok(JObj(EmptyMap), j + 1)
    ELSE IF At(s, j) = "quote" THEN Members(s, j + 1, EmptyMap)
    ELSE Fail(j)                              \* Expecting property name

\* the member loop of JSONObject, called with the index after a key's opening quote
Members(s, i, m) ==
    LET k == ScanString(s, i) IN
    IF ~k.ok THEN k
    ELSE
      LET c == SkipWs(s, k.end) IN
      IF At(s, c) # ":" THEN Fail(c)          \* Expecting ':' delimiter
      ELSE
        LET v == ScanOnce(s, SkipWs(s, c + 1)) IN
        IF ~v.ok THEN v                       \* Expecting value, or the nested error
        ELSE
          LET e == SkipWs(s, v.end)
              m2 == Put(m, k.val.s, v.val)
          IN
          IF At(s, e) = "}" THEN Ok(JObj(m2), e + 1)
          ELSE IF At(s, e) # "," THEN Fail(e) \* Expecting ',' delimiter
          ELSE
            LET q == SkipWs(s, e + 1) IN
            IF At(s, q) # "quote" THEN Fail(q)  \* Expecting property name
            ELSE Members(s, q + 1, m2)

\* scan_once: StopIteration(idx) is Fail(idx)
ScanOnce(s, i) ==
    IF At(s, i) = "quote" THEN ScanString(s, i + 1)
    ELSE IF At(s, i) = "{" THEN ParseObject(s, i + 1)
    ELSE IF At(s, i) = "null" THEN Ok(JNull, i + 1)
    ELSE Fail(i)                              \* Expecting value

\* JSONDecoder.decode: one value, then nothing but whitespace
Loads(s) ==
    LET r == ScanOnce(s, SkipWs(s, 1)) IN
    IF ~r.ok THEN r
    ELSE LET e == SkipWs(s, r.end) IN
         IF e # Len(s) + 1 THEN Fail(e)       \* Extra data
         ELSE r

(***************************************************************************)
(* str(e) of a JSONDecodeError: "<msg>: line L column C (char P)".         *)
(***************************************************************************)
DigitChar == <<"0", "1", "2", "3", "4", "5", "6", "7", "8", "9">>

RECURSIVE Digits(_)
Digits(n) ==
    IF n < 10 THEN <<DigitChar[n + 1]>>
    ELSE Digits(n \div 10) \o <<DigitChar[(n % 10) + 1]>>

\* character offset of the symbol at index i
RECURSIVE Offset(_, _)
Offset(s, i) == IF i <= 1 THEN 0 ELSE Offset(s, i - 1) + Width(s[i - 1])

NewlinesBefore(s, i) == {j \in 1..(i - 1) : s[j] = "\n"}

LineNo(s, i) == Cardinality(NewlinesBefore(s, i)) + 1

ColNo(s, i) ==
    LET nl == NewlinesBefore(s, i) IN
    IF nl = {} THEN Offset(s, i) + 1
    ELSE LET last == CHOOSE j \in nl : \A k \in nl : k <= j
         IN Offset(s, i) - Offset(s, last)

DecodeErrorMessage(s, i) ==
    <<"msg", ":", " ", "line", " ">> \o Digits(LineNo(s, i))
      \o <<" ", "column", " ">> \o Digits(ColNo(s, i))
      \o <<" ", "(", "char", " ">> \o Digits(Offset(s, i)) \o <<")">>

(***************************************************************************)
(* The model selector of the sidebar (lines 22-38).  A model name is a     *)
(* sequence of chunks; Spell gives its characters, on which the substring  *)
(* tests of line 32 are made.                                              *)
(***************************************************************************)
Chars(chunk) ==
    CASE chunk = "flash" -> <<"f", "l", "a", "s", "h">>
      [] chunk = "pro" -> <<"p", "r", "o">>
      [] chunk = "-vision" -> <<"-", "v", "i", "s", "i", "o", "n">>
      [] chunk = "models/gemini-" ->
           <<"m", "o", "d", "e", "l", "s", "/", "g", "e", "m", "i", "n", "i", "-">>
      [] chunk = "models/gemini-1.5-" ->
           <<"m", "o", "d", "e", "l", "s", "/", "g", "e", "m", "i", "n", "i", "-",
             "1", ".", "5", "-">>
      [] OTHER -> <<chunk>>

RECURSIVE Spell(_)
Spell(name) == IF name = <<>> THEN <<>> ELSE Chars(name[1]) \o Spell(Tail(name))

\* line 38
DefaultModels ==
    << <<"models/gemini-1.5-", "flash">>,
       <<"models/gemini-1.5-", "pro">>,
       <<"models/gemini-", "pro", "-vision">> >>

\* the sort key of line 32 with the 'pro' test made first
PriorityProFirst(x) ==
    IF Contains(Spell(x), Chars("pro")) THEN 1
    ELSE IF Contains(Spell(x), Chars("flash")) THEN 0 ELSE 2

\* line 32: lambda x: 0 if 'flash' in x else (1 if 'pro' in x else 2)
Priority(x) ==
    IF Contains(Spell(x), Chars("flash")) THEN 0
    ELSE IF Contains(Spell(x), Chars("pro")) THEN 1 ELSE 2

\* x placed behind every element whose key is not larger: sorted() is stable
RECURSIVE InsertByKey(_, _)
InsertByKey(x, l) ==
    IF l = <<>> THEN <<x>>
    ELSE IF Priority(l[1]) <= Priority(x) THEN <<l[1]>> \o InsertByKey(x, Tail(l))
    ELSE <<x>> \o l

\* line 32: sorted(all_models, key=...)
RECURSIVE RankModels(_)
RankModels(l) ==
    IF l = <<>> THEN <<>>
    ELSE InsertByKey(l[Len(l)], RankModels(SubSeq(l, 1, Len(l) - 1)))

\* lines 27-30: the names of the models that support generateContent
RECURSIVE SupportedNames(_)
SupportedNames(ms) ==
    IF ms = <<>> THEN <<>>
    ELSE (IF ms[1].generateContent THEN <<ms[1].name>> ELSE <<>>)
           \o SupportedNames(Tail(ms))

\* lines 37-38 without the test: the defaults are never substituted
KeepEmpty(models) == models

\* lines 37-38
FallbackIfEmpty(models) == IF models = <<>> THEN DefaultModels ELSE models

\* what genai.list_models() may yield: names of one or two chunks
NameChunks == {"flash", "pro", "x"}
ModelNames == {n \in SeqsUpTo(NameChunks, 2) : n # <<>>}
ModelInfos == [name : ModelNames, generateContent : BOOLEAN]
Enumerations == SeqsUpTo(ModelInfos, MaxModels)

(***************************************************************************)
(* What the hosted model may answer to the classifier's request.           *)
(***************************************************************************)
Keys == {"category", "color", "style", "description"}
KeyOrder == <<"category", "color", "style", "description">>

ValChars == {"a", "tick"}
Values == SeqsUpTo(ValChars, MaxItemLen)

\* records with the four keys, and records that lack some of them
\* a text of at most MaxItemLen characters cut into the four values
Cut(t, a, b, c) ==
    [k \in Keys |->
        CASE k = "category" -> SubSeq(t, 1, a)
          [] k = "color" -> SubSeq(t, a + 1, b)
          [] k = "style" -> SubSeq(t, b + 1, c)
          [] OTHER -> SubSeq(t, c + 1, Len(t))]

FullItems ==
    {Cut(q[1], q[2], q[3], q[4]) :
        q \in {x \in Values \X (0..MaxItemLen) \X (0..MaxItemLen) \X (0..MaxItemLen) :
                  x[2] <= x[3] /\ x[3] <= x[4] /\ x[4] <= Len(x[1])}}
PartialItems == {[k \in S |-> <<"a">>] : S \in (SUBSET Keys) \ {Keys}}
Items == FullItems \cup PartialItems

RECURSIVE SerializeFrom(_, _, _)
SerializeFrom(f, i, first) ==
    IF i > Len(KeyOrder) THEN <<>>
    ELSE LET k == KeyOrder[i] IN
         IF k \in DOMAIN f
         THEN (IF first THEN <<>> ELSE <<",", " ">>)
                \o <<"quote", k, "quote", ":", " ", "quote">> \o f[k] \o <<"quote">>
                \o SerializeFrom(f, i + 1, FALSE)
         ELSE SerializeFrom(f, i + 1, first)

Serialize(f) == <<"{">> \o SerializeFrom(f, 1, TRUE) \o <<"}">>

FenceKinds == {"none", "json", "plain"}

Wrap(body, fence) ==
    CASE fence = "json" -> FenceJson \o <<"\n">> \o body \o <<"\n">> \o Fence
      [] fence = "plain" -> Fence \o <<"\n">> \o body \o <<"\n">> \o Fence
      [] OTHER -> body

MiscSyms == {"{", "}", "null", "wide", "a", "quote"}
MiscTexts == SeqsUpTo(MiscSyms, MaxMiscLen)

\* messages of the errors generate_content (or response.text) may raise
CallErrors == {Marker \o <<" ", "quota">>, <<"1">> \o Marker \o <<"0", "ms">>,
               <<"4", "0", "4">>, <<"4", "2", " ", "9">>}

NoResp == [kind |-> "none", text |-> <<>>, item |-> EmptyMap, fence |-> "none"]

Responses ==
    {[kind |-> "record", text |-> Wrap(Serialize(f), w), item |-> f, fence |-> w] :
        f \in Items, w \in FenceKinds}
    \cup {[kind |-> "misc", text |-> t, item |-> EmptyMap, fence |-> "none"] :
            t \in MiscTexts}
    \cup {[kind |-> "error", text |-> e, item |-> EmptyMap, fence |-> "none"] :
            e \in CallErrors}

\* what the hosted model may answer to the advice request
AdviceOutcomes ==
    {[ok |-> TRUE, text |-> <<"advice">>], [ok |-> FALSE, text |-> <<"5", "0", "0">>]}

(***************************************************************************)
(* State.                                                                  *)
(***************************************************************************)
NoErr == [src |-> "none", msg |-> <<>>]
NotRaised == [exc |-> "none", at |-> "none"]

Event(e, n) == [ev |-> e, n |-> n]

Message(level, id, detail) == [level |-> level, id |-> id, detail |-> detail]

\* lines 100-101
QuotaDiag ==
    <<Message("error", "quota_exceeded", <<>>), Message("info", "switch_to_flash", <<>>)>>

\* lines 104-106
ModelDiag(e, model_name) ==
    <<Message("error", "vision_error", e.msg), Message("info", "model_failed", model_name)>>

\* bool(x) as line 180 takes it
Truthy(v) ==
    CASE v.kind = "obj" -> DOMAIN v.m # {}
      [] v.kind = "str" -> v.s # <<>>
      [] OTHER -> FALSE

\* x[key] raises: KeyError on a dict without the key, TypeError on a str or None
Subscript(v, ks) ==
    IF v.kind # "obj" THEN "TypeError"
    ELSE IF \E k \in ks : <<k>> \notin DOMAIN v.m THEN "KeyError"
    ELSE "none"

\* line 95 with the test always passing
IsRateLimitAlways(e) == TRUE

\* line 95: "429" in error_msg
IsRateLimit(e) == Contains(e.msg, Marker)

\* line 97 with a linear wait
BackoffLinear(n) == 2 * n

\* line 97: 2 ** attempt
Backoff(n) == 2 ^ n

\* line 84 with one more attempt
retriesFour == 3 + 1

\* line 84: retries = 3
retries == 3

(***************************************************************************)
(* The sidebar, lines 19-45.                                               *)
(***************************************************************************)
SidebarVars == <<api_key, listed, listRaised, all_models, available_models,
                 selected_model_name>>
MainVars == <<generate_btn, uploaded_file, attempt, resp, err, outcomes, trace,
              item_data, advice, raised>>

\* lines 19-38: the key field, the enumeration, the ranking and the fallback
ListModels ==
    /\ pc = "sidebar"
    /\ \E key \in {"", "key"}, ms \in Enumerations, fails \in BOOLEAN :
         \* what was yielded before an error is lost with it: all_models stays unbound
         /\ api_key' = key
         /\ IF key = ""
            THEN /\ listed' = <<>>
                 /\ listRaised' = FALSE
                 /\ all_models' = <<>>
                 /\ available_models' = FallbackIfEmpty(<<>>)
                 /\ diag' = diag
            ELSE IF fails
            THEN /\ listed' = ms
                 /\ listRaised' = TRUE
                 /\ all_models' = <<>>
                 /\ available_models' = FallbackIfEmpty(<<>>)
                 /\ diag' = Append(diag, Message("error", "key_error", <<>>))
            ELSE /\ listed' = ms
                 /\ listRaised' = FALSE
                 /\ all_models' = SupportedNames(ms)
                 /\ available_models' = FallbackIfEmpty(RankModels(SupportedNames(ms)))
                 /\ diag' = diag
    /\ pc' = "select"
    /\ UNCHANGED selected_model_name
    /\ UNCHANGED MainVars

\* lines 40-45: the select box offers available_models
SelectModel ==
    /\ pc = "select"
    /\ \E i \in 1..Len(available_models) : selected_model_name' = available_models[i]
    /\ pc' = "sidebar_done"
    /\ UNCHANGED <<api_key, listed, listRaised, all_models, available_models, diag>>
    /\ UNCHANGED MainVars

(***************************************************************************)
(* GeminiStylist.analyze_image, lines 84-107.                              *)
(***************************************************************************)
\* lines 170-172 and 177-178: the button, then the stylist is built and called;
\* the st.stop() of lines 62-64 cannot happen here, line 170 has tested api_key
StartPipeline ==
    /\ pc = "main"
    /\ IF generate_btn /\ uploaded_file /\ api_key # ""
       THEN pc' = "try"
       ELSE pc' = "done"
    /\ attempt' = 0
    /\ UNCHANGED <<resp, err, outcomes, trace, diag, item_data, advice, raised,
                   generate_btn, uploaded_file>>
    /\ UNCHANGED SidebarVars

\* lines 86-90 with json.loads moved out of the try block
TryParseOutside ==
    /\ pc = "try"
    /\ \E r \in Responses :
         /\ resp' = r
         /\ IF r.kind = "error"
            THEN /\ err' = [src |-> "call", msg |-> r.text]
                 /\ outcomes' = Append(outcomes, [src |-> "call", marker |-> Contains(r.text, Marker)])
                 /\ trace' = Append(trace, Event("call", attempt))
                 /\ pc' = "except"
                 /\ UNCHANGED <<item_data, raised>>
            ELSE LET clean_text == CleanText(r.text)
                     loaded == Loads(clean_text)
                 IN IF loaded.ok
                    THEN /\ item_data' = loaded.val
                         /\ outcomes' = Append(outcomes, [src |-> "ok", marker |-> FALSE])
                         /\ trace' = trace \o <<Event("call", attempt), Event("return", attempt)>>
                         /\ pc' = "analyzed"
                         /\ UNCHANGED <<err, raised>>
                    ELSE /\ raised' = [exc |-> "JSONDecodeError", at |-> "analyze_image"]
                         /\ outcomes' = Append(outcomes, [src |-> "parse", marker |-> FALSE])
                         /\ trace' = Append(trace, Event("call", attempt))
                         /\ pc' = "crashed"
                         /\ UNCHANGED <<err, item_data>>
    /\ UNCHANGED <<attempt, diag, advice, generate_btn, uploaded_file>>
    /\ UNCHANGED SidebarVars

\* lines 86-90: one model call, the clean-up of its text and json.loads, all
\* inside the try block; whatever is raised there reaches line 92
Try ==
    /\ pc = "try"
    /\ \E r \in Responses :
         /\ resp' = r
         /\ IF r.kind = "error"
            THEN /\ err' = [src |-> "call", msg |-> r.text]
                 /\ outcomes' = Append(outcomes, [src |-> "call", marker |-> Contains(r.text, Marker)])
                 /\ trace' = Append(trace, Event("call", attempt))
                 /\ pc' = "except"
                 /\ UNCHANGED item_data
            ELSE LET clean_text == CleanText(r.text)
                     loaded == Loads(clean_text)
                 IN IF loaded.ok
                    THEN /\ item_data' = loaded.val
                         /\ outcomes' = Append(outcomes, [src |-> "ok", marker |-> FALSE])
                         /\ trace' = trace \o <<Event("call", attempt), Event("return", attempt)>>
                         /\ pc' = "analyzed"
                         /\ UNCHANGED err
                    ELSE LET e == [src |-> "parse",
                                   msg |-> DecodeErrorMessage(clean_text, loaded.end)]
                         IN /\ err' = e
                            /\ outcomes' = Append(outcomes, [src |-> "parse", marker |-> Contains(e.msg, Marker)])
                            /\ trace' = Append(trace, Event("call", attempt))
                            /\ pc' = "except"
                            /\ UNCHANGED item_data
    /\ UNCHANGED <<attempt, diag, advice, raised, generate_btn, uploaded_file>>
    /\ UNCHANGED SidebarVars

\* lines 92-107: the handler of whatever the try block raised
Except ==
    /\ pc = "except"
    /\ IF IsRateLimit(err)
       THEN IF attempt < retries - 1
            THEN /\ trace' = Append(trace, Event("sleep", Backoff(attempt)))
                 /\ attempt' = attempt + 1
                 /\ pc' = "try"
                 /\ resp' = NoResp
                 /\ UNCHANGED <<diag, item_data>>
            ELSE /\ diag' = diag \o QuotaDiag
                 /\ item_data' = JNull
                 /\ trace' = Append(trace, Event("return", attempt))
                 /\ pc' = "analyzed"
                 /\ UNCHANGED <<attempt, resp>>
       ELSE /\ diag' = diag \o ModelDiag(err, selected_model_name)
            /\ item_data' = JNull
            /\ trace' = Append(trace, Event("return", attempt))
            /\ pc' = "analyzed"
            /\ UNCHANGED <<attempt, resp>>
    /\ err' = NoErr
    /\ UNCHANGED <<outcomes, advice, raised, generate_btn, uploaded_file>>
    /\ UNCHANGED SidebarVars

(***************************************************************************)
(* The main pipeline, lines 180-194, and generate_advice, lines 109-144.   *)
(***************************************************************************)
\* lines 180-181: the truth test, then the "Detected" line reads three keys;
\* the response is local to analyze_image (line 87) and is gone by now
Detect ==
    /\ pc = "analyzed"
    /\ IF ~Truthy(item_data)
       THEN /\ pc' = "done"
            /\ UNCHANGED raised
       ELSE LET exc == Subscript(item_data, {"color", "style", "category"}) IN
            IF exc # "none"
            THEN /\ raised' = [exc |-> exc, at |-> "main"]
                 /\ pc' = "crashed"
            ELSE /\ pc' = "advise"
                 /\ UNCHANGED raised
    /\ resp' = NoResp
    /\ UNCHANGED <<attempt, err, outcomes, trace, diag, item_data, advice,
                   generate_btn, uploaded_file>>
    /\ UNCHANGED SidebarVars

\* lines 140-144 with a second call when the first one raises
GenerateAdviceTwice ==
    /\ pc = "advise"
    /\ LET exc == Subscript(item_data, Keys) IN
       IF exc # "none"
       THEN /\ raised' = [exc |-> exc, at |-> "generate_advice"]
            /\ pc' = "crashed"
            /\ UNCHANGED <<trace, advice>>
       ELSE \E o \in AdviceOutcomes, o2 \in AdviceOutcomes :
              /\ trace' = IF o.ok THEN Append(trace, Event("advice_call", 0))
                          ELSE trace \o <<Event("advice_call", 0), Event("advice_call", 0)>>
              /\ advice' = IF o.ok THEN o.text
                           ELSE IF o2.ok THEN o2.text ELSE <<"sorry">> \o o2.text
              /\ pc' = "show"
              /\ UNCHANGED raised
    /\ UNCHANGED <<attempt, resp, err, outcomes, diag, item_data, generate_btn,
                   uploaded_file>>
    /\ UNCHANGED SidebarVars

\* lines 185-188 and 114-144: the prompt is rendered from the four keys of the
\* record before the try block; the model call and response.text are inside it
GenerateAdvice ==
    /\ pc = "advise"
    /\ LET exc == Subscript(item_data, Keys) IN
       IF exc # "none"
       THEN /\ raised' = [exc |-> exc, at |-> "generate_advice"]
            /\ pc' = "crashed"
            /\ UNCHANGED <<trace, advice>>
       ELSE \E o \in AdviceOutcomes :
              /\ trace' = Append(trace, Event("advice_call", 0))
              /\ advice' = IF o.ok THEN o.text ELSE <<"sorry">> \o o.text
              /\ pc' = "show"
              /\ UNCHANGED raised
    /\ UNCHANGED <<attempt, resp, err, outcomes, diag, item_data, generate_btn,
                   uploaded_file>>
    /\ UNCHANGED SidebarVars

\* lines 190-194
Show ==
    /\ pc = "show"
    /\ pc' = "done"
    /\ UNCHANGED <<attempt, resp, err, outcomes, trace, diag, item_data, advice,
                   raised, generate_btn, uploaded_file>>
    /\ UNCHANGED SidebarVars

(***************************************************************************)
(* Specifications.                                                         *)
(***************************************************************************)
MainInit ==
    /\ generate_btn \in BOOLEAN
    /\ uploaded_file \in BOOLEAN
    /\ attempt = 0
    /\ resp = NoResp
    /\ err = NoErr
    /\ outcomes = <<>>
    /\ trace = <<>>
    /\ item_data = JNull
    /\ advice = <<>>
    /\ raised = NotRaised

\* a script run at line 147 whose sidebar offered the defaults without a
\* message: the key field is empty, or the enumeration yielded no model
Init ==
    /\ pc = "main"
    /\ api_key \in {"", "key"}
    /\ listed = <<>>
    /\ listRaised = FALSE
    /\ all_models = <<>>
    /\ available_models = DefaultModels
    /\ selected_model_name \in {DefaultModels[i] : i \in 1..Len(DefaultModels)}
    /\ diag = <<>>
    /\ MainInit

Next == StartPipeline \/ Try \/ Except \/ Detect \/ GenerateAdvice \/ Show

Spec == Init /\ [][Next]_vars

\* the script is one thread that runs to its end
FairSpec == Spec /\ WF_vars(Next)

\* every script run ends
Termination == <>(pc \in {"done", "crashed"})

\* a script run at line 16
SidebarInit ==
    /\ pc = "sidebar"
    /\ api_key = ""
    /\ listed = <<>>
    /\ listRaised = FALSE
    /\ all_models = <<>>
    /\ available_models = <<>>
    /\ selected_model_name = <<>>
    /\ diag = <<>>
    /\ generate_btn = FALSE
    /\ uploaded_file = FALSE
    /\ attempt = 0
    /\ resp = NoResp
    /\ err = NoErr
    /\ outcomes = <<>>
    /\ trace = <<>>
    /\ item_data = JNull
    /\ advice = <<>>
    /\ raised = NotRaised

SidebarNext == ListModels \/ SelectModel

SidebarSpec == SidebarInit /\ [][SidebarNext]_vars

(***************************************************************************)
(* Properties.                                                             *)
(***************************************************************************)
IsCall(e) == e.ev = "call"
IsAdviceCall(e) == e.ev = "advice_call"
IsAnalyzeEvent(e) == e.ev # "advice_call"

Calls == Len(SelectSeq(trace, IsCall))
AdviceCalls == Len(SelectSeq(trace, IsAdviceCall))
AnalyzeTrace == SelectSeq(trace, IsAnalyzeEvent)

RECURSIVE SleepTotal(_)
SleepTotal(t) ==
    IF t = <<>> THEN 0
    ELSE (IF t[1].ev = "sleep" THEN t[1].n ELSE 0) + SleepTotal(Tail(t))

\* analyze_image has returned to line 178
AnalyzeReturned ==
    \/ pc \in {"analyzed", "advise", "show"}
    \/ pc = "done" /\ outcomes # <<>>
    \/ pc = "crashed" /\ raised.at # "analyze_image"

Failed(o) == o.src \in {"call", "parse"}

LastOutcome == outcomes[Len(outcomes)]

ModelFailedDiag ==
    /\ Len(diag) = 2
    /\ diag[1].level = "error" /\ diag[1].id = "vision_error"
    /\ diag[2] = Message("info", "model_failed", selected_model_name)

\* index in trace of the model call of attempt number i (counted from 1)
CallIndex(i) == CHOOSE j \in DOMAIN trace : trace[j] = Event("call", i - 1)

\* C1: when every model call of analyze_image raises an error whose message
\* contains "429", exactly three calls are made, with a sleep of 1 s between
\* the first two and of 2 s between the last two and none after the third,
\* and the result is None with the quota diagnostic and nothing else.
C1_RateLimitExhausted ==
    (AnalyzeReturned /\ \A i \in DOMAIN outcomes :
                           outcomes[i].src = "call" /\ outcomes[i].marker)
    => /\ AnalyzeTrace = <<Event("call", 0), Event("sleep", 1), Event("call", 1),
                           Event("sleep", 2), Event("call", 2), Event("return", 2)>>
       /\ item_data = JNull
       /\ diag = QuotaDiag

C1_Witness ==
    /\ pc = "done"
    /\ Len(outcomes) = 3
    /\ \A i \in DOMAIN outcomes : outcomes[i].src = "call" /\ outcomes[i].marker
    /\ diag = QuotaDiag

\* C2: an attempt that fails with an error whose message does not contain
\* "429" (raised by the call or by the handling of its response) is the last
\* one: no call and no sleep follows it, the result is None and the
\* diagnostic is the model-failed one naming the selected model; when it is
\* the first attempt, one call was made.
C2_NoRetryOnOtherFailure ==
    \A i \in DOMAIN outcomes :
      (Failed(outcomes[i]) /\ ~outcomes[i].marker)
      => /\ i = Len(outcomes)
         /\ Calls = i
         /\ \A j \in DOMAIN trace : j > CallIndex(i) => trace[j].ev \notin {"call", "sleep"}
         /\ pc # "try"
         /\ raised = NotRaised
         /\ AnalyzeReturned => (item_data = JNull /\ ModelFailedDiag)

C2_Witness ==
    /\ pc = "done"
    /\ Len(outcomes) = 1
    /\ outcomes[1] = [src |-> "call", marker |-> FALSE]
    /\ Calls = 1
    /\ ModelFailedDiag

\* the record a response carries, as json.loads would build it
AsLoaded(f) == JObj([k \in {<<x>> : x \in DOMAIN f} |-> JStr(f[k[1]])])

\* C3: a response that is a JSON object with the four string keys, fenced or
\* not, yields a record with exactly the values of the response.
C3_ValuesPreserved ==
    (pc = "analyzed" /\ resp.kind = "record" /\ DOMAIN resp.item = Keys)
    => item_data = AsLoaded(resp.item)

\* C4: whenever analyze_image returns a result that makes the pipeline skip the
\* advice stage, a diagnostic was emitted during the call.
C4_NoSilentSkip ==
    (AnalyzeReturned /\ ~Truthy(item_data)) => diag # <<>>

\* C5: the advice call is made at most once, only after analyze_image has
\* returned, never after a None result, and exactly once when the advice
\* stage has run.
C5_ShortCircuit ==
    /\ AdviceCalls <= 1
    /\ AdviceCalls = 1 =>
         /\ AnalyzeReturned
         /\ item_data # JNull
         /\ Truthy(item_data)
         /\ trace[Len(trace)].ev = "advice_call"
         /\ trace[Len(trace) - 1].ev = "return"
    /\ (AnalyzeReturned /\ item_data = JNull) => AdviceCalls = 0
    /\ pc = "show" => AdviceCalls = 1

C5_Witness ==
    /\ pc = "done"
    /\ AdviceCalls = 1
    /\ Len(outcomes) = 2

\* C6: generate_advice always returns text: no exception leaves it.
C6_AdviceNeverRaises ==
    /\ raised.at # "generate_advice"
    /\ pc = "show" => AdviceCalls = 1

\* C7 as stated: a response that is not valid JSON after the clean-up makes
\* analyze_image raise to its caller, with no retry, no None result and no
\* diagnostic.
C7_ParseErrorPropagates ==
    \A i \in DOMAIN outcomes :
      outcomes[i].src = "parse"
      => /\ i = Len(outcomes)
         /\ pc = "crashed"
         /\ raised.at = "analyze_image"
         /\ diag = <<>>

\* C7 as amended: the error json.loads raises is caught by the handler of line
\* 92 and never leaves analyze_image; without "429" in its message it ends the
\* call with None and the model-failed diagnostic and no retry, with "429" in
\* its message it is retried after the backoff sleep, or ends the call with
\* None and the quota diagnostic when it was the third attempt.
C7_ParseErrorHandled ==
    /\ raised.at # "analyze_image"
    /\ \A i \in DOMAIN outcomes :
         outcomes[i].src = "parse"
         => /\ ~outcomes[i].marker =>
                 /\ i = Len(outcomes)
                 /\ pc \in {"except", "analyzed", "done"}
                 /\ AnalyzeReturned => (item_data = JNull /\ ModelFailedDiag)
            /\ (outcomes[i].marker /\ i < retries) =>
                 \/ pc = "except" /\ i = Len(outcomes)
                 \/ /\ CallIndex(i) < Len(trace)
                    /\ trace[CallIndex(i) + 1] = Event("sleep", 2 ^ (i - 1))
            /\ (outcomes[i].marker /\ i = retries) =>
                 /\ pc \in {"except", "analyzed", "done"}
                 /\ AnalyzeReturned => (item_data = JNull /\ diag = QuotaDiag)

C7_Witness ==
    /\ pc = "done"
    /\ Len(outcomes) = 2
    /\ outcomes[1] = [src |-> "parse", marker |-> TRUE]
    /\ outcomes[2] = [src |-> "parse", marker |-> FALSE]
    /\ item_data = JNull
    /\ ModelFailedDiag

\* the three classes of names the ranking claim speaks of
HasFlash(x) == Contains(Spell(x), <<"f", "l", "a", "s", "h">>)
HasPro(x) == Contains(Spell(x), <<"p", "r", "o">>)
IsFast(x) == HasFlash(x)
IsProOnly(x) == HasPro(x) /\ ~HasFlash(x)
IsOther(x) == ~HasPro(x) /\ ~HasFlash(x)
Class(x) == IF IsFast(x) THEN 0 ELSE IF IsProOnly(x) THEN 1 ELSE 2

Occurrences(l, x) == Cardinality({i \in DOMAIN l : l[i] = x})

\* the enumeration succeeded and yielded a model that supports generateContent
Ranked == pc \in {"select", "sidebar_done"} /\ all_models # <<>>

\* C8: the ranked list is a permutation of the enumerated names in which every
\* 'flash' name precedes every 'pro' name without 'flash', which precedes every
\* other name; names of one class keep their order; ranking it again changes
\* nothing.
C8_RankingStable ==
    Ranked =>
      /\ Len(available_models) = Len(all_models)
      /\ \A i \in DOMAIN all_models :
           Occurrences(available_models, all_models[i])
             = Occurrences(all_models, all_models[i])
      /\ \A i, j \in DOMAIN available_models :
           i < j => Class(available_models[i]) <= Class(available_models[j])
      /\ SelectSeq(available_models, IsFast) = SelectSeq(all_models, IsFast)
      /\ SelectSeq(available_models, IsProOnly) = SelectSeq(all_models, IsProOnly)
      /\ SelectSeq(available_models, IsOther) = SelectSeq(all_models, IsOther)
      /\ RankModels(available_models) = available_models

C8_Witness ==
    /\ Ranked
    /\ all_models = << <<"pro">>, <<"flash", "pro">> >>
    /\ available_models = << <<"flash", "pro">>, <<"pro">> >>

\* C9: the offered list is never empty; it is the three defaults when the key
\* is absent, the enumeration raised or no enumerated model supports
\* generateContent, and the ranked enumeration result otherwise.
C9_FallbackList ==
    pc \in {"select", "sidebar_done"} =>
      /\ available_models # <<>>
      /\ IF \/ api_key = ""
            \/ listRaised
            \/ \A i \in DOMAIN listed : ~listed[i].generateContent
         THEN available_models = DefaultModels
         ELSE /\ all_models = SupportedNames(listed)
              /\ available_models = RankModels(all_models)

C9_Witness ==
    /\ pc = "select"
    /\ api_key # ""
    /\ ~listRaised
    /\ listed # <<>>
    /\ all_models = <<>>
    /\ available_models = DefaultModels

\* C10: analyze_image makes between one and three calls; a call follows only
\* calls that all raised errors with "429"; the sleep before call k+1 is
\* 2^(k-1) s and the sleeps add up to at most 3 s; a return follows a call
\* directly; a successful attempt returns its parsed record with no
\* diagnostic; the loop can always take its next step until it returns.
C10_BoundedRetry ==
    /\ Calls <= 3
    /\ AnalyzeReturned => (Calls >= 1 /\ Calls = Len(outcomes))
    /\ \A i, j \in DOMAIN outcomes :
         j < i => (Failed(outcomes[j]) /\ outcomes[j].marker)
    /\ \A j \in DOMAIN trace :
         /\ (trace[j].ev = "call" /\ trace[j].n > 0)
              => trace[j - 1] = Event("sleep", 2 ^ (trace[j].n - 1))
         /\ trace[j].ev = "return" => (j > 1 /\ trace[j - 1].ev = "call")
         /\ trace[j].ev = "sleep" => (j > 1 /\ trace[j - 1].ev = "call")
    /\ SleepTotal(trace) <= 3
    /\ (AnalyzeReturned /\ LastOutcome.src = "ok") => diag = <<>>
    /\ (pc = "analyzed" /\ LastOutcome.src = "ok")
         => item_data = Loads(CleanText(resp.text)).val
    /\ pc \in {"try", "except"} => (attempt \in 0..2 /\ ENABLED (Try \/ Except))

C10_Witness ==
    /\ pc = "analyzed"
    /\ Len(outcomes) = 3
    /\ LastOutcome.src = "ok"
    /\ Truthy(item_data)
    /\ SleepTotal(trace) = 3

====
